---- MODULE Spec2Model ----
(***************************************************************************)
(* Model of the social-media backend in src/main.py: credential hashing,  *)
(* bearer-token issuance and verification, the authentication gate        *)
(* get_current_user, and the handlers that sit behind it, running as       *)
(* concurrent requests against one shared document store.                 *)
(*                                                                         *)
(* Conventions.                                                            *)
(*  - An ObjectId is a positive natural; str(ObjectId) is ToString of it,  *)
(*    and ObjectId(s) parses s back or raises InvalidId.                   *)
(*  - A document is a function from field names to values; a collection   *)
(*    is a set of documents, each with a distinct "_id".                   *)
(*  - Python's Optional (find_one's result, the Authorization header) is  *)
(*    a sequence of length 0 or 1.                                         *)
(*  - Time is counted in ticks, TicksPerSecond to the second, because the  *)
(*    clock is finer than the whole seconds a token's "exp" is kept in.    *)
(*  - Each request is a process.  A handler that checks the store and     *)
(*    then writes to it (signup, like_post) takes one step per store call, *)
(*    so that concurrent requests interleave between the check and the     *)
(*    write; a handler with a single write is one step.                    *)
(*  - A response is observed the moment it is produced: it sits in `wire`  *)
(*    until `deliver` hands it to the client, and no other step is taken   *)
(*    meanwhile.  Responses are no part of the server's state, so this     *)
(*    loses no behaviour of the store.                                     *)
(***************************************************************************)
EXTENDS Integers, Sequences, FiniteSets, TLC

VARIABLES
    dbConnected,  \* database.db is not None (fixed at import)
    uniqueIndex,  \* whether the store holds unique indexes on user.username / user.email
    users,        \* db["user"]
    posts,        \* db["post"]
    likes,        \* db["like"]
    comments,     \* db["comment"]
    nextId,       \* next ObjectId the store hands out, per collection
    clock,        \* datetime.now(timezone.utc), in ticks
    pc,           \* per request process: where its handler stands
    req,          \* per request process: the handler's arguments and locals
    issued,       \* tokens under observation: what create_access_token returned, and when
    wire          \* the response being sent, with the request it answers

vars == <<dbConnected, uniqueIndex, users, posts, likes, comments, nextId,
          clock, pc, req, issued, wire>>

store == <<users, posts, likes, comments, nextId>>

----------------------------------------------------------------------------
(* Bounds of the model *)

MaxUsers == 2
MaxWrites == 3
MaxAdvances == 1
MaxTicks == 3
MaxIssued == 1
TicksPerSecond == 2

Procs == {"r1", "r2"}
Usernames == {"alice", "bob"}
Emails == {"a@x.com", "b@x.com"}
SignupPasswords == {"secret1"}
Passwords == {"secret1", "wrong"}
Salts == {"s1", "s2"}
MalformedId == "not-an-object-id"

----------------------------------------------------------------------------
(* Auth settings *)

SECRET_KEY == "dev-secret-key"
ALGORITHM == "HS256"
ACCESS_TOKEN_EXPIRE_MINUTES == 60 * 24

DefaultTtl == ACCESS_TOKEN_EXPIRE_MINUTES * 60 * TicksPerSecond

----------------------------------------------------------------------------
(* Documents and the store's primitives *)

Put(d, k, v) == [f \in DOMAIN d \cup {k} |-> IF f = k THEN v ELSE d[f]]
Pop(d, k) == [f \in DOMAIN d \ {k} |-> d[f]]
Get(d, k, default) == IF k \in DOMAIN d THEN d[k] ELSE default

Str(oid) == ToString(oid)

\* bson.ObjectId(s): the ids whose rendering is s (none: InvalidId is raised)
OidsOf(s) == {n \in 1..(MaxUsers + MaxWrites + 1) : Str(n) = s}
IsValidOid(s) == OidsOf(s) # {}
ObjectId(s) == CHOOSE n \in OidsOf(s) : TRUE

\* collection.find_one(filter), given the documents the filter matches: the first
\* of them in insertion order, or None
FindOne(matching) ==
    IF matching = {}
    THEN <<>>
    ELSE <<CHOOSE d \in matching : \A e \in matching : d._id <= e._id>>

\* database.create_document(collection, data): insert_one, returning str(inserted_id)
Inserted(coll, name, data) == coll \cup {Put(data, "_id", nextId[name])}
create_document(name) == Str(nextId[name])

\* pymongo's DuplicateKeyError on insert, when the user collection is uniquely indexed
DuplicateKey(data) ==
    /\ uniqueIndex
    /\ \E d \in users : d.username = data.username \/ d.email = data.email

----------------------------------------------------------------------------
(* Responses *)

HTTPException(status, detail, headers) ==
    [status |-> status, detail |-> detail, headers |-> headers]
Ok(body) == [status |-> 200, body |-> body]
NoHeaders == {}
BearerChallenge == {<<"WWW-Authenticate", "Bearer">>}
\* an exception no handler catches: the server answers 500 with no detail of its own
InternalServerError == HTTPException(500, "Internal Server Error", NoHeaders)
DatabaseNotConnected == HTTPException(500, "Database not connected", NoHeaders)

----------------------------------------------------------------------------
(* Credential hasher: passlib CryptContext(schemes=["bcrypt"]) *)

\* bcrypt's output embeds the scheme and the salt; the digest is a one-way
\* function of salt and password, written here as an uninterpreted term
Bcrypt(password, salt) == "$2b$" \o salt \o "$H(" \o salt \o "," \o password \o ")"

get_password_hash(password, salt) == Bcrypt(password, salt)

verify_password(plain_password, hashed_password) ==
    \E salt \in Salts : hashed_password = Bcrypt(plain_password, salt)

----------------------------------------------------------------------------
(* Token issuer / verifier: python-jose, HS256 *)

ToSeconds(t) == t \div TicksPerSecond

\* HMAC over the whole payload, as an uninterpreted term
Sign(payload, key) == [alg |-> ALGORITHM, key |-> key, over |-> payload]

\* jwt.encode: a datetime "exp" is written as whole seconds since the epoch
jwt_encode(claims, key) ==
    LET payload == IF "exp" \in DOMAIN claims
                   THEN Put(claims, "exp", ToSeconds(claims.exp))
                   ELSE claims
    IN  [payload |-> payload, sig |-> Sign(payload, key)]

\* create_access_token with the lifetime it was given ignored
create_access_token_default_only(data, expires_delta, now) ==
    jwt_encode(Put(data, "exp", now + DefaultTtl), SECRET_KEY)

create_access_token(data, expires_delta, now) ==
    LET delta  == IF expires_delta = <<>> \/ expires_delta[1] = 0
                  THEN DefaultTtl
                  ELSE expires_delta[1]
        expire == now + delta
    IN  jwt_encode(Put(data, "exp", expire), SECRET_KEY)

\* jwt.decode: the signature first, then the expiry against the current whole second;
\* every failure is a JWTError
jwt_decode(token, key, now) ==
    IF DOMAIN token # {"payload", "sig"}
    THEN [ok |-> FALSE, error |-> "JWTError: malformed"]
    ELSE IF token.sig # Sign(token.payload, key)
    THEN [ok |-> FALSE, error |-> "JWTError: signature"]
    ELSE IF "exp" \in DOMAIN token.payload /\ token.payload.exp < ToSeconds(now)
    THEN [ok |-> FALSE, error |-> "ExpiredSignatureError"]
    ELSE [ok |-> TRUE, payload |-> token.payload]

----------------------------------------------------------------------------
(* Authentication gate *)

Authenticated(user_doc) == [outcome |-> "Authenticated", user |-> user_doc]
Rejected(exc) == [outcome |-> "Rejected", resp |-> exc]
\* the request dies in the gate with something other than a rejection
Failed(exc) == [outcome |-> "Failed", resp |-> exc]

credentials_exception ==
    HTTPException(401, "Could not validate credentials", BearerChallenge)

\* OAuth2PasswordBearer(tokenUrl="/auth/login"), auto_error left on: a request
\* without "Authorization: Bearer ..." is answered by the scheme itself
oauth2_scheme(authorization) ==
    IF authorization = <<>>
    THEN Rejected(HTTPException(401, "Not authenticated", BearerChallenge))
    ELSE [outcome |-> "Token", token |-> authorization[1]]

\* the try block of get_current_user: the decoded subject, or the credentials exception
verify_token(token) ==
    LET decoded == jwt_decode(token, SECRET_KEY, clock)
    IN  IF ~decoded.ok THEN Rejected(credentials_exception)
        ELSE IF "sub" \notin DOMAIN decoded.payload THEN Rejected(credentials_exception)
        ELSE [outcome |-> "Subject", user_id |-> decoded.payload.sub]

get_current_user(token) ==
    LET verified == verify_token(token)
    IN  IF verified.outcome = "Rejected" THEN verified
        ELSE IF ~dbConnected THEN Failed(DatabaseNotConnected)
        ELSE IF ~IsValidOid(verified.user_id) THEN Failed(InternalServerError)
        ELSE LET user_doc == FindOne({d \in users : d._id = ObjectId(verified.user_id)})
             IN  IF user_doc = <<>> THEN Rejected(credentials_exception)
                 ELSE Authenticated(Put(user_doc[1], "_id", Str(user_doc[1]._id)))

\* Depends(get_current_user) over Depends(oauth2_scheme)
Gate(authorization) ==
    LET bearer == oauth2_scheme(authorization)
    IN  IF bearer.outcome = "Rejected" THEN bearer ELSE get_current_user(bearer.token)

----------------------------------------------------------------------------
(* Requests and their inputs *)

\* the clock moves in steps that carry a token of the default lifetime past its expiry
ClockStep == DefaultTtl + TicksPerSecond
FarFuture == (MaxAdvances + 2) * ClockStep

\* tokens this server hands out at signup and login
ServerTokens ==
    {create_access_token([sub |-> Str(i)], <<>>, k * ClockStep) :
        i \in 1..MaxUsers, k \in 0..MaxAdvances}

Garbage == [raw |-> "not-a-jwt"]
WrongKey == jwt_encode([sub |-> Str(1), exp |-> FarFuture], "attacker-key")
Tampered ==
    [payload |-> [sub |-> Str(2), exp |-> ToSeconds(FarFuture)],
     sig |-> Sign([sub |-> Str(1), exp |-> ToSeconds(FarFuture)], SECRET_KEY)]
NoSubject == jwt_encode([exp |-> FarFuture], SECRET_KEY)
MalformedSubject == jwt_encode([sub |-> MalformedId, exp |-> FarFuture], SECRET_KEY)

\* tokens nobody was handed by this server
ForeignTokens == {Garbage, WrongKey, Tampered, NoSubject, MalformedSubject}

BearerTokens == ServerTokens \cup ForeignTokens
Authorizations == {<<>>} \cup {<<t>> : t \in BearerTokens}

SignupInputs ==
    [username : Usernames, email : Emails, password : SignupPasswords]
LoginInputs == [username : Usernames, password : Passwords]

\* the author_id a client puts in the body: bob's, whoever sends it
ClientAuthorIds == {Str(2)}
Subjects == {Str(1), Str(2)}
PostInputs == [content : {"hello"}, author_id : ClientAuthorIds]
CommentInputs == [content : {"nice"}, author_id : ClientAuthorIds]
\* the first post's id, a well-formed id no post ever gets, a malformed id
PostIdInputs == {Str(1), Str(MaxWrites + 1), MalformedId}
Pages == {[skip |-> 0, limit |-> 20], [skip |-> 1, limit |-> 1]}
ExpiresDeltas == {<<>>} \cup {<<d>> : d \in 0..MaxTicks}

NoReq == [op |-> "none"]
\* signup and login sit behind no gate
NoGate == [outcome |-> "none"]
NoResponse == [op |-> "none"]

Quiet == wire.op = "none"
InFlight(op) == Cardinality({p \in Procs : req[p].op = op})

\* posts, comments and likes written so far, and those a running request may yet write
Written == (nextId["post"] - 1) + (nextId["comment"] - 1) + (nextId["like"] - 1)
MayWrite == Written + InFlight("like_post") < MaxWrites

\* the request of process p is over: its response goes out
Complete(p, op, args, gate, resp) ==
    /\ pc' = [pc EXCEPT ![p] = "idle"]
    /\ req' = [req EXCEPT ![p] = NoReq]
    /\ wire' = [op |-> op, args |-> args, gate |-> gate.outcome,
                user |-> IF gate.outcome = "Authenticated" THEN gate.user._id ELSE "",
                resp |-> resp]

Goto(p, label, r) ==
    /\ pc' = [pc EXCEPT ![p] = label]
    /\ req' = [req EXCEPT ![p] = r]
    /\ UNCHANGED wire

\* the client receives the response
deliver ==
    /\ ~Quiet
    /\ wire' = NoResponse
    /\ UNCHANGED <<dbConnected, uniqueIndex, store, clock, pc, req, issued>>

TokenBody(access_token) == [access_token |-> access_token, token_type |-> "bearer"]

----------------------------------------------------------------------------
(* Auth endpoints *)

\* POST /auth/signup, up to the email check
signup(p, user) ==
    /\ Quiet /\ pc[p] = "idle"
    /\ nextId["user"] + InFlight("signup") <= MaxUsers
    /\ IF ~dbConnected
       THEN Complete(p, "signup", user, NoGate, DatabaseNotConnected)
       ELSE IF FindOne({d \in users : d.email = user.email}) # <<>>
       THEN Complete(p, "signup", user, NoGate,
                     HTTPException(400, "Email already registered", NoHeaders))
       ELSE Goto(p, "signup_username", [op |-> "signup", user |-> user])
    /\ UNCHANGED <<dbConnected, uniqueIndex, store, clock, issued>>

\* ... the username check
signup_username(p) ==
    /\ Quiet /\ pc[p] = "signup_username"
    /\ IF FindOne({d \in users : d.username = req[p].user.username}) # <<>>
       THEN Complete(p, "signup", req[p].user, NoGate,
                     HTTPException(400, "Username already taken", NoHeaders))
       ELSE Goto(p, "signup_insert", req[p])
    /\ UNCHANGED <<dbConnected, uniqueIndex, store, clock, issued>>

\* signup storing model_dump() with the hash added and the password left in
SignupDocument_keeps_password(user, salt) ==
    Put(user, "password_hash", get_password_hash(user.password, salt))

\* the document signup stores: model_dump() with the password replaced by its hash
SignupDocument(user, salt) ==
    LET data   == user
        hashed == get_password_hash(data.password, salt)
    IN  Put(Pop(data, "password"), "password_hash", hashed)

\* ... hashing, the insert and the token
signup_insert(p, salt) ==
    /\ Quiet /\ pc[p] = "signup_insert"
    /\ LET data == SignupDocument(req[p].user, salt)
       IN  IF DuplicateKey(data)
           THEN /\ Complete(p, "signup", req[p].user, NoGate, InternalServerError)
                /\ UNCHANGED store
           ELSE LET user_id      == create_document("user")
                    access_token == create_access_token([sub |-> user_id], <<>>, clock)
                IN  /\ users' = Inserted(users, "user", data)
                    /\ nextId' = [nextId EXCEPT !["user"] = @ + 1]
                    /\ Complete(p, "signup", req[p].user, NoGate,
                                Ok(TokenBody(access_token)))
                    /\ UNCHANGED <<posts, likes, comments>>
    /\ UNCHANGED <<dbConnected, uniqueIndex, clock, issued>>

\* login telling an unknown username from a wrong password
login_names_unknown_user(p, payload) ==
    /\ Quiet /\ pc[p] = "idle"
    /\ LET user_doc == FindOne({d \in users : d.username = payload.username})
       IN  IF ~dbConnected
           THEN Complete(p, "login", payload, NoGate, DatabaseNotConnected)
           ELSE IF user_doc = <<>>
           THEN Complete(p, "login", payload, NoGate,
                         HTTPException(400, "Unknown username", NoHeaders))
           ELSE IF ~verify_password(payload.password,
                                    Get(user_doc[1], "password_hash", ""))
           THEN Complete(p, "login", payload, NoGate,
                         HTTPException(400, "Incorrect username or password", NoHeaders))
           ELSE Complete(p, "login", payload, NoGate,
                         Ok(TokenBody(create_access_token(
                                [sub |-> Str(user_doc[1]._id)], <<>>, clock))))
    /\ UNCHANGED <<dbConnected, uniqueIndex, store, clock, issued>>

\* POST /auth/login
login(p, payload) ==
    /\ Quiet /\ pc[p] = "idle"
    /\ LET user_doc == FindOne({d \in users : d.username = payload.username})
       IN  IF ~dbConnected
           THEN Complete(p, "login", payload, NoGate, DatabaseNotConnected)
           ELSE IF user_doc = <<>>
           THEN Complete(p, "login", payload, NoGate,
                         HTTPException(400, "Incorrect username or password", NoHeaders))
           ELSE IF ~verify_password(payload.password,
                                    Get(user_doc[1], "password_hash", ""))
           THEN Complete(p, "login", payload, NoGate,
                         HTTPException(400, "Incorrect username or password", NoHeaders))
           ELSE Complete(p, "login", payload, NoGate,
                         Ok(TokenBody(create_access_token(
                                [sub |-> Str(user_doc[1]._id)], <<>>, clock))))
    /\ UNCHANGED <<dbConnected, uniqueIndex, store, clock, issued>>

PublicUser(doc) ==
    [id |-> doc._id, username |-> Get(doc, "username", ""), email |-> Get(doc, "email", "")]

\* GET /auth/me
me(p, authorization) ==
    /\ Quiet /\ pc[p] = "idle"
    /\ LET gate == Gate(authorization)
           args == [authorization |-> authorization]
       IN  IF gate.outcome # "Authenticated"
           THEN Complete(p, "me", args, gate, gate.resp)
           ELSE Complete(p, "me", args, gate, Ok(PublicUser(gate.user)))
    /\ UNCHANGED <<dbConnected, uniqueIndex, store, clock, issued>>

----------------------------------------------------------------------------
(* Builders *)

\* the documents of a collection, newest first (the store stamps created_at on
\* insert, so the order is the order of insertion)
RECURSIVE NewestFirst(_)
NewestFirst(coll) ==
    IF coll = {} THEN <<>>
    ELSE LET d == CHOOSE x \in coll : \A y \in coll : y._id <= x._id
         IN  <<d>> \o NewestFirst(coll \ {d})

\* cursor.skip(skip).limit(limit)
Page(docs, skip, limit) ==
    SubSeq(docs, skip + 1, IF Len(docs) < skip + limit THEN Len(docs) ELSE skip + limit)

\* the author document the builders look up
AuthorOf(doc) ==
    IF IsValidOid(doc.author_id)
    THEN FindOne({u \in users : u._id = ObjectId(doc.author_id)})
    ELSE <<>>

build_post_out(doc) ==
    LET author_doc == AuthorOf(doc)[1]
        pid        == Str(doc._id)
    IN  [id |-> pid,
         author |-> PublicUser(Put(author_doc, "_id", Str(author_doc._id))),
         content |-> doc.content,
         likes |-> Cardinality({l \in likes : l.post_id = pid}),
         comments_count |-> Cardinality({c \in comments : c.post_id = pid})]

build_comment_out(doc) ==
    LET author_doc == AuthorOf(doc)[1]
    IN  [id |-> Str(doc._id),
         author |-> PublicUser(Put(author_doc, "_id", Str(author_doc._id))),
         content |-> doc.content]

\* a builder dereferences the author document: with the author gone it raises,
\* and the request ends as an unhandled error
Built(docs, builder) ==
    IF \E i \in 1..Len(docs) : AuthorOf(docs[i]) = <<>>
    THEN InternalServerError
    ELSE Ok([items |-> [i \in 1..Len(docs) |->
                            IF builder = "build_post_out"
                            THEN build_post_out(docs[i])
                            ELSE build_comment_out(docs[i])]])

----------------------------------------------------------------------------
(* Posts, likes, comments *)

\* create_post storing the body as the client sent it
PostDocument_trusts_client(post, current_user) == post

\* the document create_post stores
PostDocument(post, current_user) == Put(post, "author_id", current_user._id)

\* POST /posts
create_post(p, authorization, post) ==
    /\ Quiet /\ pc[p] = "idle"
    /\ MayWrite
    /\ LET gate == Gate(authorization)
           args == [post |-> post]
       IN  IF gate.outcome # "Authenticated"
           THEN /\ Complete(p, "create_post", args, gate, gate.resp)
                /\ UNCHANGED store
           ELSE LET data == PostDocument(post, gate.user)
                    doc  == Put(Put(data, "_id", nextId["post"]), "gate_user", gate.user._id)
                IN  /\ posts' = posts \cup {doc}
                    /\ nextId' = [nextId EXCEPT !["post"] = @ + 1]
                    /\ Complete(p, "create_post", args, gate,
                                Built(<<doc>>, "build_post_out"))
                    /\ UNCHANGED <<users, likes, comments>>
    /\ UNCHANGED <<dbConnected, uniqueIndex, clock, issued>>

\* GET /posts
list_posts(p, authorization, page) ==
    /\ Quiet /\ pc[p] = "idle"
    /\ LET gate == Gate(authorization)
           args == [page |-> page]
           docs == Page(NewestFirst(posts), page.skip, page.limit)
       IN  IF gate.outcome # "Authenticated"
           THEN Complete(p, "list_posts", args, gate, gate.resp)
           ELSE Complete(p, "list_posts", args, gate, Built(docs, "build_post_out"))
    /\ UNCHANGED <<dbConnected, uniqueIndex, store, clock, issued>>

\* POST /posts/{post_id}/like: the gate
like_post(p, authorization, post_id) ==
    /\ Quiet /\ pc[p] = "idle"
    /\ MayWrite
    /\ LET gate == Gate(authorization)
           args == [post_id |-> post_id]
       IN  IF gate.outcome # "Authenticated"
           THEN Complete(p, "like_post", args, gate, gate.resp)
           ELSE Goto(p, "like_post_find",
                     [op |-> "like_post", args |-> args, post_id |-> post_id,
                      gate |-> gate, current_user |-> gate.user])
    /\ UNCHANGED <<dbConnected, uniqueIndex, store, clock, issued>>

\* what "ensure post exists" lets through: the lookup's result is dropped, only
\* the exception of a post_id that is no ObjectId is acted on
PostCheckPasses(post_id) == IsValidOid(post_id)

\* ... the post lookup and the lookup of this user's like
like_post_find(p) ==
    /\ Quiet /\ pc[p] = "like_post_find"
    /\ IF ~PostCheckPasses(req[p].post_id)
       THEN Complete(p, "like_post", req[p].args, req[p].gate,
                     HTTPException(404, "Post not found", NoHeaders))
       ELSE Goto(p, "like_post_write",
                 Put(req[p], "exists",
                     FindOne({l \in likes : /\ l.post_id = req[p].post_id
                                             /\ l.user_id = req[p].current_user._id})))
    /\ UNCHANGED <<dbConnected, uniqueIndex, store, clock, issued>>

\* the document like_post stores
LikeDocument(post_id, current_user) ==
    [post_id |-> post_id, user_id |-> current_user._id]

\* ... the toggle: delete the like found, or insert one
like_post_write(p) ==
    /\ Quiet /\ pc[p] = "like_post_write"
    /\ IF req[p].exists # <<>>
       THEN /\ likes' = {l \in likes : l._id # req[p].exists[1]._id}
            /\ UNCHANGED nextId
            /\ Complete(p, "like_post", req[p].args, req[p].gate, Ok([liked |-> FALSE]))
       ELSE /\ likes' = Inserted(likes, "like",
                                 Put(LikeDocument(req[p].post_id, req[p].current_user),
                                     "gate_user", req[p].current_user._id))
            /\ nextId' = [nextId EXCEPT !["like"] = @ + 1]
            /\ Complete(p, "like_post", req[p].args, req[p].gate, Ok([liked |-> TRUE]))
    /\ UNCHANGED <<dbConnected, uniqueIndex, users, posts, comments, clock, issued>>

\* the document add_comment stores
CommentDocument(comment, post_id, current_user) ==
    Put(Put(comment, "post_id", post_id), "author_id", current_user._id)

\* POST /posts/{post_id}/comments
add_comment(p, authorization, post_id, comment) ==
    /\ Quiet /\ pc[p] = "idle"
    /\ MayWrite
    /\ LET gate == Gate(authorization)
           args == [post_id |-> post_id,
                    comment |-> comment]
       IN  IF gate.outcome # "Authenticated"
           THEN /\ Complete(p, "add_comment", args, gate, gate.resp)
                /\ UNCHANGED store
           ELSE LET data == CommentDocument(comment, post_id, gate.user)
                    doc  == Put(Put(data, "_id", nextId["comment"]),
                                "gate_user", gate.user._id)
                IN  /\ comments' = comments \cup {doc}
                    /\ nextId' = [nextId EXCEPT !["comment"] = @ + 1]
                    /\ Complete(p, "add_comment", args, gate,
                                Built(<<doc>>, "build_comment_out"))
                    /\ UNCHANGED <<users, posts, likes>>
    /\ UNCHANGED <<dbConnected, uniqueIndex, clock, issued>>

\* GET /posts/{post_id}/comments
list_comments(p, authorization, post_id, page) ==
    /\ Quiet /\ pc[p] = "idle"
    /\ LET gate == Gate(authorization)
           args == [post_id |-> post_id, page |-> page]
           docs == Page(NewestFirst({c \in comments : c.post_id = post_id}),
                        page.skip, page.limit)
       IN  IF gate.outcome # "Authenticated"
           THEN Complete(p, "list_comments", args, gate, gate.resp)
           ELSE Complete(p, "list_comments", args, gate,
                         Built(docs, "build_comment_out"))
    /\ UNCHANGED <<dbConnected, uniqueIndex, store, clock, issued>>

----------------------------------------------------------------------------
(* Environment *)

\* a user record is removed from the store (delete-one-by-id, by an operator of
\* the store: no endpoint of the API does it)
delete_user(oid) ==
    /\ Quiet
    /\ \E d \in users : d._id = oid
    /\ users' = {d \in users : d._id # oid}
    /\ UNCHANGED <<dbConnected, uniqueIndex, posts, likes, comments, nextId,
                   clock, pc, req, issued, wire>>

\* a day and a second pass
advance_clock ==
    /\ Quiet
    /\ clock \div ClockStep < MaxAdvances
    /\ clock' = clock + ClockStep
    /\ UNCHANGED <<dbConnected, uniqueIndex, store, pc, req, issued, wire>>

\* a tick passes
tick ==
    /\ Quiet
    /\ clock % ClockStep < MaxTicks + TicksPerSecond
    /\ clock' = clock + 1
    /\ UNCHANGED <<dbConnected, uniqueIndex, store, pc, req, issued, wire>>

----------------------------------------------------------------------------
(* The token issuer and verifier on their own *)

\* create_access_token({"sub": subject}, expires_delta), called now
issue_token(subject, expires_delta) ==
    /\ Quiet
    /\ Cardinality(issued) < MaxIssued
    /\ issued' = issued \cup
          {[token |-> create_access_token([sub |-> subject], expires_delta, clock),
            sub |-> subject, at |-> clock, expires_delta |-> expires_delta]}
    /\ UNCHANGED <<dbConnected, uniqueIndex, store, clock, pc, req, wire>>

\* an issued token is presented to the verifier
present_token(i) ==
    /\ Quiet
    /\ i \in issued
    /\ LET verified == verify_token(i.token)
       IN  wire' = [op |-> "verify", args |-> i, gate |-> verified.outcome, user |-> "",
                    resp |-> IF verified.outcome = "Rejected" THEN verified.resp
                             ELSE Ok([sub |-> verified.user_id])]
    /\ UNCHANGED <<dbConnected, uniqueIndex, store, clock, pc, req, issued>>

----------------------------------------------------------------------------
(* The system *)

Init ==
    /\ dbConnected \in BOOLEAN
    /\ uniqueIndex \in BOOLEAN
    /\ users = {}
    /\ posts = {}
    /\ likes = {}
    /\ comments = {}
    /\ nextId = [c \in {"user", "post", "like", "comment"} |-> 1]
    /\ clock = 0
    /\ pc = [p \in Procs |-> "idle"]
    /\ req = [p \in Procs |-> NoReq]
    /\ issued = {}
    /\ wire = NoResponse

Next ==
    \/ \E p \in Procs, user \in SignupInputs : signup(p, user)
    \/ \E p \in Procs : signup_username(p)
    \/ \E p \in Procs, salt \in Salts : signup_insert(p, salt)
    \/ \E p \in Procs, payload \in LoginInputs : login(p, payload)
    \/ \E p \in Procs, a \in Authorizations : me(p, a)
    \/ \E p \in Procs, a \in Authorizations, post \in PostInputs : create_post(p, a, post)
    \/ \E p \in Procs, a \in Authorizations, page \in Pages : list_posts(p, a, page)
    \/ \E p \in Procs, a \in Authorizations, id \in PostIdInputs : like_post(p, a, id)
    \/ \E p \in Procs : like_post_find(p)
    \/ \E p \in Procs : like_post_write(p)
    \/ \E p \in Procs, a \in Authorizations, id \in PostIdInputs, c \in CommentInputs :
          add_comment(p, a, id, c)
    \/ \E p \in Procs, a \in Authorizations, id \in PostIdInputs, page \in Pages :
          list_comments(p, a, id, page)
    \/ \E oid \in 1..MaxUsers : delete_user(oid)
    \/ advance_clock
    \/ deliver

\* the whole API
Spec == Init /\ [][Next]_vars

\* the auth endpoints on their own: signup, login and the gate behind /auth/me
NextAuth ==
    \/ \E p \in Procs, user \in SignupInputs : signup(p, user)
    \/ \E p \in Procs : signup_username(p)
    \/ \E p \in Procs, salt \in Salts : signup_insert(p, salt)
    \/ \E p \in Procs, payload \in LoginInputs : login(p, payload)
    \/ \E p \in Procs, a \in Authorizations : me(p, a)
    \/ \E oid \in 1..MaxUsers : delete_user(oid)
    \/ advance_clock
    \/ deliver

SpecAuth == Init /\ [][NextAuth]_vars

\* a user record as signup stored it
SeedUser(oid, username, email) ==
    Put(SignupDocument([username |-> username, email |-> email, password |-> "secret1"],
                       "s1"),
        "_id", oid)

\* alice's first post, as create_post stored it
SeedPost ==
    Put(Put(PostDocument([content |-> "first", author_id |-> Str(1)], [_id |-> Str(1)]),
            "_id", 1),
        "gate_user", Str(1))

\* a store in which alice and bob have signed up and alice has posted
InitSocial ==
    /\ dbConnected = TRUE
    /\ uniqueIndex = FALSE
    /\ users = {SeedUser(1, "alice", "a@x.com"), SeedUser(2, "bob", "b@x.com")}
    /\ posts = {SeedPost}
    /\ likes = {}
    /\ comments = {}
    /\ nextId = [user |-> 3, post |-> 2, like |-> 1, comment |-> 1]
    /\ clock = 0
    /\ pc = [p \in Procs |-> "idle"]
    /\ req = [p \in Procs |-> NoReq]
    /\ issued = {}
    /\ wire = NoResponse

\* what clients present there: nothing, tokens that are no token of this server,
\* and the tokens alice and bob were handed at signup
SocialAuthorizations ==
    {<<>>, <<Garbage>>, <<MalformedSubject>>}
        \cup {<<create_access_token([sub |-> Str(i)], <<>>, 0)>> : i \in 1..2}

\* the handlers behind the gate, from that store on
NextSocial ==
    \/ \E p \in Procs, a \in SocialAuthorizations : me(p, a)
    \/ \E p \in Procs, a \in SocialAuthorizations, post \in PostInputs : create_post(p, a, post)
    \/ \E p \in Procs, a \in SocialAuthorizations, page \in Pages : list_posts(p, a, page)
    \/ \E p \in Procs, a \in SocialAuthorizations, id \in PostIdInputs : like_post(p, a, id)
    \/ \E p \in Procs : like_post_find(p)
    \/ \E p \in Procs : like_post_write(p)
    \/ \E p \in Procs, a \in SocialAuthorizations, id \in PostIdInputs, c \in CommentInputs :
          add_comment(p, a, id, c)
    \/ \E p \in Procs, a \in SocialAuthorizations, id \in PostIdInputs, page \in Pages :
          list_comments(p, a, id, page)
    \/ \E oid \in 1..MaxUsers : delete_user(oid)
    \/ deliver

SpecSocial == InitSocial /\ [][NextSocial]_vars

\* a store in which alice has signed up and posted
InitWrites ==
    /\ dbConnected = TRUE
    /\ uniqueIndex \in BOOLEAN
    /\ users = {SeedUser(1, "alice", "a@x.com")}
    /\ posts = {SeedPost}
    /\ likes = {}
    /\ comments = {}
    /\ nextId = [user |-> 2, post |-> 2, like |-> 1, comment |-> 1]
    /\ clock = 0
    /\ pc = [p \in Procs |-> "idle"]
    /\ req = [p \in Procs |-> NoReq]
    /\ issued = {}
    /\ wire = NoResponse

\* what clients present there: nothing, or the token alice or bob gets at signup
WriteAuthorizations ==
    {<<>>} \cup {<<create_access_token([sub |-> Str(i)], <<>>, 0)>> : i \in 1..2}

\* every endpoint that writes to the store, with login and /auth/me, from that store on
NextWrites ==
    \/ \E p \in Procs, user \in SignupInputs : signup(p, user)
    \/ \E p \in Procs : signup_username(p)
    \/ \E p \in Procs, salt \in Salts : signup_insert(p, salt)
    \/ \E p \in Procs, payload \in LoginInputs : login(p, payload)
    \/ \E p \in Procs, a \in WriteAuthorizations : me(p, a)
    \/ \E p \in Procs, a \in WriteAuthorizations, post \in PostInputs : create_post(p, a, post)
    \/ \E p \in Procs, a \in WriteAuthorizations, id \in PostIdInputs : like_post(p, a, id)
    \/ \E p \in Procs : like_post_find(p)
    \/ \E p \in Procs : like_post_write(p)
    \/ \E p \in Procs, a \in WriteAuthorizations, id \in PostIdInputs, c \in CommentInputs :
          add_comment(p, a, id, c)
    \/ deliver

SpecWrites == InitWrites /\ [][NextWrites]_vars

InitToken ==
    /\ dbConnected = TRUE
    /\ uniqueIndex = FALSE
    /\ users = {}
    /\ posts = {}
    /\ likes = {}
    /\ comments = {}
    /\ nextId = [c \in {"user", "post", "like", "comment"} |-> 1]
    /\ clock = 0
    /\ pc = [p \in Procs |-> "idle"]
    /\ req = [p \in Procs |-> NoReq]
    /\ issued = {}
    /\ wire = NoResponse

\* tokens issued with any lifetime, presented as time passes
NextToken ==
    \/ \E subject \in Subjects, d \in ExpiresDeltas : issue_token(subject, d)
    \/ \E i \in issued : present_token(i)
    \/ tick
    \/ advance_clock
    \/ deliver

SpecToken == InitToken /\ [][NextToken]_vars

----------------------------------------------------------------------------
(* Properties: signup, login and the gate (checked under SpecAuth) *)

\* the token of a token response
TokenOf(resp) == resp.body.access_token

\* C1: no two user records share a username and no two share an email, whatever
\* the interleaving of concurrent signups; a signup that loses such a race fails
\* with the duplicate-identity error (HTTP 400), as every refused signup does
\* while the store is connected.
C1_UniqueIdentity ==
    /\ \A d, e \in users :
          d._id # e._id => d.username # e.username /\ d.email # e.email
    /\ (dbConnected /\ wire.op = "signup" /\ wire.resp.status # 200)
          => wire.resp.status = 400

\* server tokens, still valid, whose user record was created and has been deleted
DeletedUserTokens ==
    {t \in ServerTokens :
        /\ verify_token(t).outcome = "Subject"
        /\ ObjectId(t.payload.sub) < nextId["user"]
        /\ \A d \in users : d._id # ObjectId(t.payload.sub)}

\* C2: a protected request without a bearer token and one with a validly signed,
\* unexpired token of a deleted user are both rejected, with the same 401 and the
\* same message "Could not validate credentials".
C2_SameRejection ==
    dbConnected =>
        \A t \in DeletedUserTokens :
            /\ Gate(<<>>).outcome = "Rejected"
            /\ Gate(<<t>>).outcome = "Rejected"
            /\ Gate(<<>>).resp = Gate(<<t>>).resp
            /\ Gate(<<t>>).resp.status = 401
            /\ Gate(<<t>>).resp.detail = "Could not validate credentials"

\* the failures C3 lists: malformed, bad signature, expired, no subject, a subject
\* that is no well-formed record id, a subject no user record has
BadToken(t) ==
    \/ DOMAIN t # {"payload", "sig"}
    \/ t.sig # Sign(t.payload, SECRET_KEY)
    \/ ("exp" \in DOMAIN t.payload /\ t.payload.exp < ToSeconds(clock))
    \/ "sub" \notin DOMAIN t.payload
    \/ ~IsValidOid(t.payload.sub)
    \/ \A d \in users : Str(d._id) # t.payload.sub

\* C3: every token that fails in one of those ways ends the gate in Rejected with
\* the one outcome (401, "Could not validate credentials", WWW-Authenticate:
\* Bearer): never another status or message, never Authenticated.  Observed on
\* GET /auth/me, whose response on a gate failure is the gate's.
C3_UniformRejection ==
    (/\ dbConnected
     /\ wire.op = "me"
     /\ wire.args.authorization # <<>>
     /\ BadToken(wire.args.authorization[1]))
        => /\ wire.gate = "Rejected"
           /\ wire.resp = credentials_exception

\* the user record login looks at
LoginUser(payload) == FindOne({d \in users : d.username = payload.username})

\* a login that must fail: no record of that username, or a wrong password
LoginMustFail(payload) ==
    \/ LoginUser(payload) = <<>>
    \/ ~verify_password(payload.password, LoginUser(payload)[1].password_hash)

C5_SameResponse ==
    (dbConnected /\ wire.op = "login" /\ LoginMustFail(wire.args))
        => wire.resp = HTTPException(400, "Incorrect username or password", NoHeaders)

C5_NoEffect ==
    (wire.op = "none" /\ wire'.op = "login") => UNCHANGED <<store, issued>>

\* C5: login with a username that has no record and login with a wrong password
\* get exactly the same response (400, "Incorrect username or password", no
\* token in it), and a login changes no stored state.
C5_LoginFailuresAlike == []C5_SameResponse /\ [][C5_NoEffect]_vars

\* a login for a known user with the wrong password has been answered
C5_Witness ==
    /\ dbConnected
    /\ wire.op = "login"
    /\ LoginUser(wire.args) # <<>>
    /\ wire.args.password = "wrong"
    /\ wire.resp.status = 400

\* C6: the token a successful signup returns, and the token any later login with
\* the same username and password returns, carry as subject the id of the record
\* that signup created; presented to the gate before expiry while the record
\* exists, either resolves to that record and no other.
C6_TokenNamesSignupRecord ==
    /\ (wire.op = "signup" /\ wire.resp.status = 200)
          => \E d \in users : /\ Str(d._id) = TokenOf(wire.resp).payload.sub
                              /\ d.username = wire.args.username
                              /\ d.email = wire.args.email
    /\ (wire.op = "login" /\ wire.resp.status = 200)
          => \A d \in users :
                (/\ d.username = wire.args.username
                 /\ verify_password(wire.args.password, d.password_hash))
                    => TokenOf(wire.resp).payload.sub = Str(d._id)
    /\ (/\ dbConnected
        /\ wire.op = "me"
        /\ wire.args.authorization # <<>>
        /\ wire.args.authorization[1] \in ServerTokens
        /\ ~BadToken(wire.args.authorization[1]))
          => \E d \in users :
                /\ Str(d._id) = wire.args.authorization[1].payload.sub
                /\ wire.gate = "Authenticated"
                /\ wire.resp = Ok(PublicUser(Put(d, "_id", Str(d._id))))

----------------------------------------------------------------------------
(* Properties: token lifetime (checked under SpecToken) *)

\* the lifetime an issued token was asked for: 24 hours when none was given
Ttl(i) == IF i.expires_delta = <<>> THEN DefaultTtl ELSE i.expires_delta[1]

Accepts(i) == verify_token(i.token) = [outcome |-> "Subject", user_id |-> i.sub]
RejectsToken(i) == verify_token(i.token) = Rejected(credentials_exception)

\* C4, as claimed: a token issued for subject S at time t with ttl > 0 is accepted,
\* yielding exactly S, at every time now <= t + ttl and rejected as unauthorized
\* at every time now > t + ttl.
C4_ExactExpiry ==
    \A i \in issued :
        Ttl(i) > 0 =>
            /\ clock <= i.at + Ttl(i) => Accepts(i)
            /\ clock > i.at + Ttl(i) => RejectsToken(i)

C4_WholeSeconds ==
    \A i \in issued :
        Ttl(i) > 0 =>
            IF ToSeconds(clock) <= ToSeconds(i.at + Ttl(i))
            THEN Accepts(i)
            ELSE RejectsToken(i)

C4_StaysExpired ==
    \A i \in issued : RejectsToken(i) => RejectsToken(i)'

\* C4, amended: the expiry is kept in whole seconds.  The token is accepted,
\* yielding exactly S, while the current whole second is not after the whole
\* second of t + ttl, and rejected as unauthorized from the next second on; a
\* token once rejected stays rejected.
C4_ExpiryInWholeSeconds == []C4_WholeSeconds /\ [][C4_StaysExpired]_vars

\* a token has been presented after t + ttl and was rejected
C4_Witness ==
    /\ wire.op = "verify"
    /\ Ttl(wire.args) > 0
    /\ clock > wire.args.at + Ttl(wire.args)
    /\ wire.gate = "Rejected"
    /\ wire.resp = credentials_exception

----------------------------------------------------------------------------
(* Properties: the handlers behind the gate (checked under SpecSocial) *)

ProtectedOps ==
    {"create_post", "like_post", "add_comment", "me", "list_posts", "list_comments"}

C7_GateDecides ==
    /\ \A d \in posts \cup comments : d.author_id = d.gate_user
    /\ \A l \in likes : l.user_id = l.gate_user
    /\ \A p \in Procs : pc[p] # "idle" => req[p].gate.outcome = "Authenticated"
    /\ (wire.op \in ProtectedOps /\ wire.gate # "Authenticated")
          => /\ wire.resp.status \in {401, 500}
             /\ "body" \notin DOMAIN wire.resp
    /\ (wire.op \in {"create_post", "add_comment"} /\ wire.resp.status = 200)
          => wire.resp.body.items[1].author.id = wire.user

C7_RejectedWritesNothing ==
    (wire.op = "none" /\ wire'.op \in ProtectedOps /\ wire'.gate # "Authenticated")
        => UNCHANGED store

\* C7: a protected operation runs only in a request whose gate ended in
\* Authenticated.  Every stored post, comment and like carries as author_id /
\* user_id the id of the user the gate resolved for the request that wrote it,
\* whatever author_id the client sent; a request whose gate did not end in
\* Authenticated gets the gate's answer and writes or deletes no document.
C7_ChokePoint == []C7_GateDecides /\ [][C7_RejectedWritesNothing]_vars

\* alice has created a post whose body named bob as the author, and is its author
C7_Witness ==
    /\ wire.op = "create_post"
    /\ wire.resp.status = 200
    /\ wire.args.post.author_id # wire.user
    /\ \E d \in posts : /\ Str(d._id) = wire.resp.body.items[1].id
                        /\ d.author_id = wire.user

\* C9: like_post ensures the post exists.  An authenticated request with a
\* post_id no post record has is answered 404 "Post not found", and every stored
\* like refers to a post record (posts are never deleted, so a post that existed
\* when the like was written exists now).
C9_LikeRequiresPost ==
    /\ \A l \in likes : \E q \in posts : Str(q._id) = l.post_id
    /\ (/\ wire.op = "like_post"
        /\ wire.gate = "Authenticated"
        /\ \A q \in posts : Str(q._id) # wire.args.post_id)
          => wire.resp = HTTPException(404, "Post not found", NoHeaders)

\* C10: like_post keeps at most one like per user and post under any interleaving,
\* and the flag it returns says whether the user's like of the post exists once the
\* request has completed.  Stated for the posts that exist.
C10_AtMostOneLike ==
    /\ \A l, m \in likes :
          (/\ \E q \in posts : Str(q._id) = l.post_id
           /\ l.post_id = m.post_id
           /\ l.user_id = m.user_id) => l._id = m._id
    /\ (/\ wire.op = "like_post"
        /\ wire.resp.status = 200
        /\ \E q \in posts : Str(q._id) = wire.args.post_id)
          => wire.resp.body.liked =
                (\E l \in likes : /\ l.post_id = wire.args.post_id
                                  /\ l.user_id = wire.user)

----------------------------------------------------------------------------
(* Properties: stored credentials (checked under SpecWrites) *)

C8_HashOnly ==
    /\ \A d \in users :
          /\ "password" \notin DOMAIN d
          /\ "password_hash" \in DOMAIN d
          /\ d.password_hash \notin Passwords
          /\ \E pw \in SignupPasswords : verify_password(pw, d.password_hash)
    /\ (wire.op = "signup" /\ wire.resp.status = 200)
          => \E d \in users :
                /\ Str(d._id) = TokenOf(wire.resp).payload.sub
                /\ verify_password(wire.args.password, d.password_hash)

C8_HashImmutable ==
    \A d \in users :
        \E e \in users' : e._id = d._id /\ e.password_hash = d.password_hash

\* C8: each stored user record holds the hash computed from the password of its
\* signup, never the plaintext and no "password" field; no login, me, post, like,
\* comment or other signup changes or removes a record's password_hash.
C8_CredentialAtRest == []C8_HashOnly /\ [][C8_HashImmutable]_vars

\* a second user has signed up, and with both records stored a login or a write
\* behind the gate has been answered
C8_Witness ==
    /\ Cardinality(users) > 1
    /\ wire.op \in {"login", "create_post", "like_post", "add_comment"}
    /\ wire.resp.status = 200

============================================================================
